---------------------------- MODULE Spec2Model ----------------------------
(***************************************************************************)
(* snowflash: per-time-step aggregation of SNOwGLoBES channel counts       *)
(* (flash2snowglobes/analysis.py), cumulative time integration and channel *)
(* fractions of the resulting time-binned tables (snow_data/snow_tools.py).*)
(*                                                                         *)
(* Specifications.  Spec: analyze_output of one model.  SpecUnchecked: the *)
(* same on input files of any shape.  SpecStages: the same followed by a   *)
(* snow_tools session on the saved table.  SpecBuilds: two calls of        *)
(* analyze_output side by side.  SpecCum: get_cumulative on a batch.       *)
(* SpecFrac: get_channel_fractions.  SpecRounded, SpecRoundedFrac: the     *)
(* mean energy and the fractions of one time step in rounded arithmetic.   *)
(*                                                                         *)
(* Numbers.  The program computes in binary64.  Counts are drawn from      *)
(* small integers, on which binary64 sums and products are exact; a        *)
(* quotient is kept as an exact fraction <<n, d>> in lowest terms, and     *)
(* 0/0 is IEEE's NaN.  The rounding of binary64 itself is modelled in the  *)
(* last part of the module, at a reduced mantissa width.                   *)
(***************************************************************************)
EXTENDS Integers, Sequences, FiniteSets, TLC

(***************************************************************************)
(* Bounds of the model                                                     *)
(***************************************************************************)
\* largest number of time steps of a model (rows of its key file / table)
MaxTime == 2
\* largest number of rows of the time-binned tables handed to get_cumulative
MaxRows == 3
\* bits of the significand of the rounded arithmetic (binary64 has 53)
MantBits == 3

(***************************************************************************)
(* binary64 values as exact fractions                                      *)
(***************************************************************************)
NaN == <<0, 0>>
Inf == <<1, 0>>
Zero == <<0, 1>>

RECURSIVE GCD(_, _)
GCD(a, b) == IF b = 0 THEN a ELSE GCD(b, a % b)

\* the fraction n/d (n >= 0, d >= 0) in lowest terms; IEEE: 0/0 = nan, x/0 = inf
Frac(n, d) ==
    IF d = 0 THEN (IF n = 0 THEN NaN ELSE Inf)
    ELSE LET g == GCD(n, d) IN <<n \div g, d \div g>>

FromInt(n) == <<n, 1>>
IsNaN(x) == x = NaN

FAdd(x, y) ==
    IF IsNaN(x) \/ IsNaN(y) THEN NaN
    ELSE IF x = Inf \/ y = Inf THEN Inf
    ELSE Frac(x[1] * y[2] + y[1] * x[2], x[2] * y[2])

FMul(x, y) ==
    IF IsNaN(x) \/ IsNaN(y) THEN NaN
    ELSE IF x = Inf \/ y = Inf
         THEN (IF x = Zero \/ y = Zero THEN NaN ELSE Inf)
    ELSE Frac(x[1] * y[1], x[2] * y[2])

\* numpy true division: no exception, 0/0 = nan, x/0 = inf
FDiv(x, y) ==
    IF IsNaN(x) \/ IsNaN(y) THEN NaN
    ELSE IF x = Inf THEN (IF y = Inf THEN NaN ELSE Inf)
    ELSE IF y = Inf THEN Zero
    ELSE Frac(x[1] * y[2], x[2] * y[1])

\* x <= y on finite values
FLeq(x, y) == x[1] * y[2] <= y[1] * x[2]

(***************************************************************************)
(* Binary floating point, rounded to nearest, ties to even: the value      *)
(* <<m, e>> is m * 2^e, with m = 0 or 2^(MantBits-1) <= m < 2^MantBits.    *)
(* The exponent is unbounded: no overflow, no underflow.                   *)
(***************************************************************************)
RECURSIVE Pow2(_)
Pow2(k) == IF k = 0 THEN 1 ELSE 2 * Pow2(k - 1)

\* number of bits of n > 0
RECURSIVE BitLen(_)
BitLen(n) == IF n = 0 THEN 0 ELSE 1 + BitLen(n \div 2)

B_Zero == <<0, 0>>

\* the float nearest to n * 2^e (n >= 0)
B_round(n, e) ==
    IF n = 0 THEN B_Zero
    ELSE IF BitLen(n) <= MantBits
    THEN <<n * Pow2(MantBits - BitLen(n)), e - (MantBits - BitLen(n))>>
    ELSE LET k == BitLen(n) - MantBits
             q == n \div Pow2(k)
             r == n % Pow2(k)
             half == Pow2(k - 1)
             up == r > half \/ (r = half /\ q % 2 = 1)
             q1 == IF up THEN q + 1 ELSE q
         IN IF q1 = Pow2(MantBits) THEN <<Pow2(MantBits - 1), e + k + 1>>
            ELSE <<q1, e + k>>

B_min(j, k) == IF j <= k THEN j ELSE k

B_mul(u, v) == B_round(u[1] * v[1], u[2] + v[2])

B_add(u, v) ==
    IF u = B_Zero THEN v
    ELSE IF v = B_Zero THEN u
    ELSE LET e == B_min(u[2], v[2])
         IN B_round(u[1] * Pow2(u[2] - e) + v[1] * Pow2(v[2] - e), e)

\* u / v for v # 0: the quotient to MantBits + 3 bits, the last of them
\* sticky (set when the division leaves a remainder), then rounded
B_div(u, v) ==
    LET n == u[1] * Pow2(MantBits + 2)
        q == n \div v[1]
        sticky == IF n % v[1] = 0 THEN 0 ELSE 1
    IN B_round(2 * q + sticky, u[2] - v[2] - (MantBits + 2) - 1)

\* u <= v
B_leq(u, v) ==
    LET e == B_min(u[2], v[2])
    IN u[1] * Pow2(u[2] - e) <= v[1] * Pow2(v[2] - e)

(***************************************************************************)
(* numpy arrays: sequences                                                 *)
(***************************************************************************)
\* np.zeros(n)
np_zeros(n) == [k \in 1..n |-> 0]

\* u += v works when v has the length of u or length 1; any other length
\* raises ValueError (operands could not be broadcast together)
broadcasts(n, v) == Len(v) \in {n, 1}

\* u += v, element-wise; a v of length 1 is broadcast over u
VecAdd(u, v) == [k \in 1..Len(u) |-> u[k] + (IF Len(v) = 1 THEN v[1] ELSE v[k])]

\* np.sum of an integer-valued array
RECURSIVE np_sum(_)
np_sum(v) == IF v = <<>> THEN 0 ELSE v[1] + np_sum(Tail(v))

\* np.sum of an array of fractions
RECURSIVE np_fsum(_)
np_fsum(v) == IF v = <<>> THEN Zero ELSE FAdd(v[1], np_fsum(Tail(v)))

(***************************************************************************)
(* Inputs: configuration and the files SNOwGLoBES left in ./out            *)
(***************************************************************************)
\* channel ids for which SNOwGLoBES wrote output files
Channels == {"a", "b"}

\* channel_groups: an ordered mapping group -> [channel]; a dict has no
\* repeated key, and nothing else is checked of it
GroupingMenu ==
    { << [group |-> "IBD", subs |-> <<"a">>] >>,
      << [group |-> "A", subs |-> <<"a">>], [group |-> "B", subs |-> <<"b">>] >>,
      << [group |-> "NC", subs |-> <<"a", "b">>] >>,
      << [group |-> "A", subs |-> <<"a">>], [group |-> "B", subs |-> <<"a">>] >>,
      << [group |-> "A", subs |-> <<"a">>], [group |-> "total", subs |-> <<"b">>] >>,
      << [group |-> "total", subs |-> <<"a">>], [group |-> "B", subs |-> <<"b">>] >> }

\* counts per energy bin of one channel at one time step (events_smeared.dat,
\* column 1)
CountVectors == { <<0, 0>>, <<2, 1>>, <<0, 1>> }

\* energy column of the output files (column 0), in GeV
EnergyFiles == { << <<1, 100>>, <<1, 50>> >>, << <<1, 1000>>, <<3, 1000>> >> }

\* time column of the key file: n values, 5 ms apart
TimeGrid(n) == [k \in 1..n |-> 5 * (k - 1)]

GroupNames(groups) == {groups[k].group : k \in 1..Len(groups)}

(***************************************************************************)
(* Python dicts: functions on their key set                                *)
(***************************************************************************)
\* d[k] = v
dict_set(d, k, v) == [x \in (DOMAIN d) \cup {k} |-> IF x = k THEN v ELSE d[x]]

\* name of a table column, f'{y_var}_{channel}'
y_column(y_var, channel) == <<y_var, channel>>

(***************************************************************************)
(* analysis.py: raw channel counts                                         *)
(***************************************************************************)
\* channels = []; for group, subs in groups.items(): channels += subs
RECURSIVE get_all_channels(_)
get_all_channels(groups) ==
    IF groups = <<>> THEN <<>>
    ELSE groups[1].subs \o get_all_channels(Tail(groups))

\* np.genfromtxt opens the file, and raises OSError when there is none
file_exists(files, i, chan) == chan \in DOMAIN files[i]

\* {chan: load_channel_dat(chan, i)} for chan in channels; files is the content
\* of ./out, files[i][chan] the count column of channel chan at time step i
load_channel_counts(channels, i, files) ==
    [chan \in {channels[k] : k \in 1..Len(channels)} |-> files[i][chan]]

\* energy column of an output file, GeV to MeV
load_energy_bins(energy_file) ==
    [k \in 1..Len(energy_file) |-> FMul(energy_file[k], FromInt(1000))]

(***************************************************************************)
(* analysis.py: group counts/averages                                      *)
(***************************************************************************)
\* counts = np.zeros(n_bins); for chan in sub_channels: counts += channel_counts[chan]
RECURSIVE sum_sub_channels(_, _, _)
sum_sub_channels(channel_counts, sub_channels, n_bins) ==
    IF sub_channels = <<>> THEN np_zeros(n_bins)
    ELSE VecAdd(sum_sub_channels(channel_counts,
                                 SubSeq(sub_channels, 1, Len(sub_channels) - 1),
                                 n_bins),
                channel_counts[sub_channels[Len(sub_channels)]])

\* one pass of the loop over groups.items(): the group's counts are added to
\* the array under 'total', then stored under the group's own name
group_step(group_counts, channel_counts, entry, n_bins) ==
    LET counts == sum_sub_channels(channel_counts, entry.subs, n_bins)
        added == [group_counts EXCEPT !["total"] = VecAdd(@, counts)]
    IN dict_set(added, entry.group, counts)

RECURSIVE group_loop(_, _, _, _)
group_loop(group_counts, channel_counts, groups, n_bins) ==
    IF groups = <<>> THEN group_counts
    ELSE group_loop(group_step(group_counts, channel_counts, groups[1], n_bins),
                    channel_counts, Tail(groups), n_bins)

get_group_counts(channel_counts, groups, n_bins) ==
    group_loop([g \in {"total"} |-> np_zeros(n_bins)], channel_counts, groups, n_bins)

get_totals(group_counts) ==
    [group \in DOMAIN group_counts |-> np_sum(group_counts[group])]

\* np.sum(group_counts[group] * energy_bins)
weighted_sum(counts, energy_bins) ==
    np_fsum([k \in 1..Len(counts) |-> FMul(FromInt(counts[k]), energy_bins[k])])

\* get_avg without its test of total != 0
get_avg_unguarded(group_counts, group_totals, energy_bins) ==
    [group \in DOMAIN group_totals |->
        FDiv(weighted_sum(group_counts[group], energy_bins),
             FromInt(group_totals[group]))]

get_avg(group_counts, group_totals, energy_bins) ==
    [group \in DOMAIN group_totals |->
        IF group_totals[group] # 0
        THEN FDiv(weighted_sum(group_counts[group], energy_bins),
                  FromInt(group_totals[group]))
        ELSE Zero]

\* np.sum of an array of floats: the entries added from the first on
RECURSIVE B_sum(_)
B_sum(v) ==
    IF v = <<>> THEN B_Zero
    ELSE B_add(B_sum(SubSeq(v, 1, Len(v) - 1)), v[Len(v)])

\* get_totals and get_avg of one group in rounded arithmetic
get_totals_rounded(counts) == B_sum(counts)

get_avg_rounded(counts, total, e_bins) ==
    IF total # B_Zero
    THEN B_div(B_sum([k \in 1..Len(counts) |-> B_mul(counts[k], e_bins[k])]), total)
    ELSE B_Zero

(***************************************************************************)
(* analysis.py: timebinned data                                            *)
(***************************************************************************)
create_timebin_table(timesteps, time_totals, time_avg) ==
    [col \in {<<"time">>}
             \cup {y_column("energy", g) : g \in DOMAIN time_avg}
             \cup {y_column("counts", g) : g \in DOMAIN time_totals} |->
        IF col = <<"time">> THEN timesteps
        ELSE IF col[1] = "energy" THEN time_avg[col[2]]
        ELSE [k \in 1..Len(time_totals[col[2]]) |-> FromInt(time_totals[col[2]][k])]]

\* the table analyze_output builds and saves for a grouping and the files of
\* one model: row k holds the totals and averages of time step k
analyze_table(groups, files, e_file, key) ==
    LET gc(k) == get_group_counts(
                     load_channel_counts(get_all_channels(groups), k, files),
                     groups, Len(e_file))
        names == {"total"} \cup GroupNames(groups)
    IN create_timebin_table(
           key,
           [g \in names |-> [k \in 1..Len(key) |-> get_totals(gc(k))[g]]],
           [g \in names |->
               [k \in 1..Len(key) |->
                   get_avg(gc(k), get_totals(gc(k)), load_energy_bins(e_file))[g]]])

(***************************************************************************)
(* snow_tools.py: the batch of time-binned tables as an xarray Dataset     *)
(***************************************************************************)
\* the models (masses) of a batch
MassList == <<"m1", "m2">>

Range(seq) == {seq[k] : k \in 1..Len(seq)}

\* the values of a set of numbers in increasing order
RECURSIVE SortedSeq(_)
SortedSeq(S) ==
    IF S = {} THEN <<>>
    ELSE LET m == CHOOSE x \in S : \A y \in S : x <= y
         IN <<m>> \o SortedSeq(S \ {m})

\* table.set_index('time').to_xarray() of every model, then
\* xr.concat(..., dim='mass'): the time coordinates are joined (outer join)
\* and a model without a row at some time holds nan there
load_all_timebin_tables(mass_list, tables) ==
    LET joined == SortedSeq(UNION {Range(tables[m][<<"time">>]) : m \in Range(mass_list)})
        cols == (DOMAIN tables[mass_list[1]]) \ {<<"time">>}
        at(m, col, t) ==
            IF \E k \in 1..Len(tables[m][<<"time">>]) : tables[m][<<"time">>][k] = t
            THEN tables[m][col][CHOOSE k \in 1..Len(tables[m][<<"time">>]) :
                                    tables[m][<<"time">>][k] = t]
            ELSE NaN
    IN [time |-> joined,
        mass |-> mass_list,
        data |-> [col \in cols |->
                    [m \in Range(mass_list) |->
                        [k \in 1..Len(joined) |-> at(m, col, joined[k])]]]]

\* ds.isel(time=slice(0, n_bins)): the first n_bins rows, or all of them when
\* there are fewer; a slice past the end is not an error
isel_time(ds, n_bins) ==
    LET n == IF n_bins < Len(ds.time) THEN n_bins ELSE Len(ds.time)
    IN [time |-> SubSeq(ds.time, 1, n),
        mass |-> ds.mass,
        data |-> [col \in DOMAIN ds.data |->
                    [m \in Range(ds.mass) |-> SubSeq(ds.data[col][m], 1, n)]]]

\* .sum(dim='time') of one variable of one model: nan entries are skipped
RECURSIVE xr_sum(_)
xr_sum(v) ==
    IF v = <<>> THEN Zero
    ELSE IF IsNaN(v[1]) THEN xr_sum(Tail(v))
    ELSE FAdd(v[1], xr_sum(Tail(v)))

\* a * b of two variables of one model, element-wise
xr_mul(u, v) == [k \in 1..Len(u) |-> FMul(u[k], v[k])]

\* time_integrate with the mean taken over the time bins instead of weighted
\* by the counts
time_integrate_unweighted(ds, n_bins, chans) ==
    LET time_slice == isel_time(ds, n_bins)
    IN [col \in {y_column(y, c) : y \in {"counts", "energy"},
                                  c \in Range(<<"total">> \o chans)} |->
          [m \in Range(ds.mass) |->
             IF col[1] = "counts"
             THEN xr_sum(time_slice.data[col][m])
             ELSE FDiv(xr_sum(time_slice.data[col][m]),
                       FromInt(Len(time_slice.time)))]]

\* time_integrate restricted to the last of the n_bins bins
time_integrate_last_bin(ds, n_bins, chans) ==
    LET time_slice == isel_time(ds, n_bins)
        last(v) == IF v = <<>> THEN <<>> ELSE <<v[Len(v)]>>
    IN [col \in {y_column(y, c) : y \in {"counts", "energy"},
                                  c \in Range(<<"total">> \o chans)} |->
          [m \in Range(ds.mass) |->
             LET tot == y_column("counts", col[2])
                 avg == y_column("energy", col[2])
                 total_counts == xr_sum(last(time_slice.data[tot][m]))
                 total_energy == xr_sum(last(xr_mul(time_slice.data[avg][m],
                                                    time_slice.data[tot][m])))
             IN IF col[1] = "counts" THEN total_counts
                ELSE FDiv(total_energy, total_counts)]]

\* the Dataset (dim: mass) of the counts and mean energies of every channel
\* and of 'total', integrated over the first n_bins time bins
time_integrate(ds, n_bins, chans) ==
    LET time_slice == isel_time(ds, n_bins)
    IN [col \in {y_column(y, c) : y \in {"counts", "energy"},
                                  c \in Range(<<"total">> \o chans)} |->
          [m \in Range(ds.mass) |->
             LET tot == y_column("counts", col[2])
                 avg == y_column("energy", col[2])
                 total_counts == xr_sum(time_slice.data[tot][m])
                 total_energy == xr_sum(xr_mul(time_slice.data[avg][m],
                                               time_slice.data[tot][m]))
             IN IF col[1] = "counts" THEN total_counts
                ELSE FDiv(total_energy, total_counts)]]

\* xr.concat(cumulative.values(), dim='time') of the Datasets of bins 1..n
xr_concat_time(cumulative, n) ==
    [col \in DOMAIN cumulative[1] |->
        [m \in DOMAIN cumulative[1][col] |->
            [bin \in 1..n |-> cumulative[bin][col][m]]]]

\* x.coords['time'] = labels: xarray takes the labels when there is one per
\* entry of the dimension and raises ValueError (conflicting sizes) otherwise
coords_fit(labels, n) == Len(labels) = n

\* np.array(timebin_tables['time'])[1:]
time_labels(ds) == IF ds.time = <<>> THEN <<>> ELSE Tail(ds.time)

(***************************************************************************)
(* snow_tools.py: get_channel_fractions                                    *)
(***************************************************************************)
\* a / b of two columns of a DataFrame, element-wise: 0/0 = nan, x/0 = inf
pd_div(u, v) == [k \in 1..Len(u) |-> FDiv(u[k], v[k])]

\* np.mean of a Series is Series.mean(): the nan entries are skipped, and the
\* mean of no entries is nan
pd_mean(v) ==
    LET kept == SelectSeq(v, LAMBDA e : ~IsNaN(e))
    IN FDiv(np_fsum(kept), FromInt(Len(kept)))

\* the DataFrame of fractions: a column per model set, indexed by channel
get_channel_fractions(tables, channels) ==
    [model_set \in DOMAIN tables |->
        [channel \in Range(channels) |->
            pd_mean(pd_div(tables[model_set][y_column("counts", channel)],
                           tables[model_set][y_column("counts", "total")]))]]


(***************************************************************************)
(* analysis.py: analyze_output, one model                                  *)
(***************************************************************************)
VARIABLES
    pc,              \* position in analyze_output
    channel_groups,  \* argument: the grouping
    out_files,       \* ./out: out_files[i][chan], counts of chan at step i
    energy_file,     \* ./out: the energy column shared by the files
    key_file,        \* ./fluxes: time column of the key file
    channels, time, n_time, energy_bins, n_bins,
    time_totals, time_avg, i,
    channel_counts, group_counts, group_totals, group_avg,
    timebin_table,   \* the assembled table
    saved,           \* the table written to ./analysis, <<>> while none is
    cpc,             \* position in the snow_tools session
    data_dir,        \* SNOWGLOBES_DATA: the saved table of every model
    timebin_tables,  \* the Dataset load_all_timebin_tables returned
    max_n_bins,      \* get_cumulative's argument
    b,               \* get_cumulative's loop variable
    cumulative,      \* get_cumulative's dict: cumulative[b], b = 1, 2, ...
    x,               \* the Dataset get_cumulative returned, <<>> while none is
    rpc,             \* position in the step in rounded arithmetic
    r_counts,        \* a group's counts per energy bin, floats
    r_energy_bins,   \* the energy bins, floats
    r_total,         \* get_totals of the group
    r_avg,           \* get_avg of the group
    fpc,             \* position in the call of get_channel_fractions
    tables,          \* its argument: {model_set: DataFrame}
    frac_table,      \* the DataFrame it returned, <<>> while none is
    qpc,             \* position in the fractions in rounded arithmetic
    q_counts,        \* the count of every category at the step, floats
    q_row,           \* the row of the step in the time-binned table
    q_fracs,         \* the fractions get_channel_fractions returned
    dpc,             \* position in the snow_tools session on one model
    d_table,         \* the model's table as load_timebin_table read it
    d_integrated,    \* what time_integrate returned, <<>> while nothing
    d_fractions,     \* what get_channel_fractions returned, <<>> while nothing
    bpc,             \* position of each of two calls of analyze_output
    b_files,         \* ./out: the files of each of the two models
    b_i,             \* the loop variable of each call
    b_time_totals,   \* time_totals of each call
    b_time_avg,      \* time_avg of each call
    b_table,         \* timebin_table of each call, <<>> while none is
    b_saved,         \* the file each call has written, <<>> while none is
    analysis_dir     \* the directory analysis/{detector}_{model_set} exists

inputs == <<channel_groups, out_files, energy_file, key_file>>
setup == <<channels, time, n_time, energy_bins, n_bins>>
series == <<time_totals, time_avg>>
step == <<channel_counts, group_counts, group_totals, group_avg>>
output == <<timebin_table, saved>>
analysis_vars == <<pc, inputs, setup, series, i, step, output>>
cum_vars == <<cpc, data_dir, timebin_tables, max_n_bins, b, cumulative, x>>
r_vars == <<rpc, r_counts, r_energy_bins, r_total, r_avg>>
frac_vars == <<fpc, tables, frac_table>>
q_vars == <<qpc, q_counts, q_row, q_fracs>>
d_vars == <<dpc, d_table, d_integrated, d_fractions>>
b_vars == <<bpc, b_files, b_i, b_time_totals, b_time_avg, b_table, b_saved, analysis_dir>>
ext_vars == <<frac_vars, q_vars, d_vars, b_vars>>
vars == <<analysis_vars, cum_vars, r_vars, ext_vars>>

\* no call of get_channel_fractions
FracOff == fpc = "off" /\ tables = <<>> /\ frac_table = <<>>

\* no fractions in rounded arithmetic
RoundedFracOff ==
    qpc = "off" /\ q_counts = <<>> /\ q_row = <<>> /\ q_fracs = <<>>

\* no snow_tools session on one model
StagesOff ==
    dpc = "off" /\ d_table = <<>> /\ d_integrated = <<>> /\ d_fractions = <<>>

\* no two calls of analyze_output side by side
BuildsOff ==
    /\ bpc = <<>> /\ b_files = <<>> /\ b_i = <<>>
    /\ b_time_totals = <<>> /\ b_time_avg = <<>>
    /\ b_table = <<>> /\ b_saved = <<>> /\ analysis_dir = FALSE

\* nothing but analyze_output, the cumulative session and the rounded step
ExtOff == FracOff /\ RoundedFracOff /\ StagesOff /\ BuildsOff

\* the variables a call of get_channel_fractions leaves alone
not_frac == <<analysis_vars, cum_vars, r_vars, q_vars, d_vars, b_vars>>
\* the variables the fractions in rounded arithmetic leave alone
not_q == <<analysis_vars, cum_vars, r_vars, frac_vars, d_vars, b_vars>>
\* the variables the snow_tools session on one model leaves alone
not_d == <<analysis_vars, cum_vars, r_vars, frac_vars, q_vars, b_vars>>
\* the variables the two calls side by side leave alone
not_b == <<analysis_vars, cum_vars, r_vars, frac_vars, q_vars, d_vars>>

\* no step in rounded arithmetic
RoundedOff ==
    /\ rpc = "off" /\ r_counts = <<>> /\ r_energy_bins = <<>>
    /\ r_total = B_Zero /\ r_avg = B_Zero

\* no snow_tools session
CumOff ==
    /\ cpc = "off" /\ data_dir = <<>> /\ timebin_tables = <<>>
    /\ max_n_bins = 0 /\ b = 0 /\ cumulative = <<>> /\ x = <<>>

\* no analyze_output run
AnalysisOff ==
    /\ pc = "off"
    /\ channel_groups = <<>> /\ out_files = <<>> /\ energy_file = <<>>
    /\ key_file = <<>>
    /\ channels = <<>> /\ time = <<>> /\ n_time = 0
    /\ energy_bins = <<>> /\ n_bins = 0
    /\ time_totals = <<>> /\ time_avg = <<>> /\ i = 0
    /\ channel_counts = <<>> /\ group_counts = <<>>
    /\ group_totals = <<>> /\ group_avg = <<>>
    /\ timebin_table = <<>> /\ saved = <<>>

Init ==
    /\ pc = "start"
    /\ channel_groups \in GroupingMenu
    /\ \E n \in 1..MaxTime :
          /\ key_file = TimeGrid(n)
          /\ out_files \in [1..n -> [Channels -> CountVectors]]
    /\ energy_file \in EnergyFiles
    /\ channels = <<>> /\ time = <<>> /\ n_time = 0
    /\ energy_bins = <<>> /\ n_bins = 0
    /\ time_totals = <<>> /\ time_avg = <<>> /\ i = 0
    /\ channel_counts = <<>> /\ group_counts = <<>>
    /\ group_totals = <<>> /\ group_avg = <<>>
    /\ timebin_table = <<>> /\ saved = <<>>
    /\ CumOff
    /\ RoundedOff
    /\ ExtOff

\* lines 22-43: the channel list, the time grid, the energy bins and the
\* zeroed series of every group and of 'total'
Setup ==
    /\ pc = "start"
    /\ channels' = get_all_channels(channel_groups)
    /\ time' = key_file
    /\ n_time' = Len(key_file)
    /\ energy_bins' = load_energy_bins(energy_file)
    /\ n_bins' = Len(energy_file)
    /\ time_totals' = [g \in {"total"} \cup GroupNames(channel_groups) |->
                          np_zeros(Len(key_file))]
    /\ time_avg' = [g \in {"total"} \cup GroupNames(channel_groups) |->
                       [k \in 1..Len(key_file) |-> Zero]]
    /\ i' = 0
    /\ pc' = "load"
    /\ UNCHANGED <<ext_vars, r_vars, cum_vars, inputs, step, output>>

\* lines 45-50, with a file of a channel missing: the step is not loaded and
\* what the earlier steps filled is written out
Load_keeping_rows ==
    /\ pc = "load" /\ i < n_time
    /\ IF \A k \in 1..Len(channels) : file_exists(out_files, i + 1, channels[k])
       THEN /\ channel_counts' = load_channel_counts(channels, i + 1, out_files)
            /\ pc' = "aggregate"
            /\ UNCHANGED output
       ELSE /\ channel_counts' = channel_counts
            /\ pc' = "OSError"
            /\ timebin_table' = create_timebin_table(time, time_totals, time_avg)
            /\ saved' = create_timebin_table(time, time_totals, time_avg)
    /\ UNCHANGED <<ext_vars, r_vars, cum_vars, inputs, setup, series, i, group_counts, group_totals,
                   group_avg>>

\* lines 45-50, always of the first time step's files
Load_first_step ==
    /\ pc = "load" /\ i < n_time
    /\ channel_counts' = load_channel_counts(channels, 1, out_files)
    /\ pc' = "aggregate"
    /\ UNCHANGED <<ext_vars, r_vars, cum_vars, inputs, setup, series, i, group_counts, group_totals,
                   group_avg, output>>

\* lines 45-50; the exception of a missing file leaves analyze_output
Load ==
    /\ pc = "load" /\ i < n_time
    /\ IF \A k \in 1..Len(channels) : file_exists(out_files, i + 1, channels[k])
       THEN /\ channel_counts' = load_channel_counts(channels, i + 1, out_files)
            /\ pc' = "aggregate"
       ELSE /\ channel_counts' = channel_counts
            /\ pc' = "OSError"
    /\ UNCHANGED <<ext_vars, r_vars, cum_vars, inputs, setup, series, i, group_counts, group_totals,
                   group_avg, output>>

\* lines 52-54; the exception of line 156 leaves analyze_output
Aggregate ==
    /\ pc = "aggregate"
    /\ IF \A k \in 1..Len(channels) : broadcasts(n_bins, channel_counts[channels[k]])
       THEN /\ group_counts' = get_group_counts(channel_counts, channel_groups, n_bins)
            /\ pc' = "average"
       ELSE /\ group_counts' = group_counts
            /\ pc' = "ValueError"
    /\ UNCHANGED <<ext_vars, r_vars, cum_vars, inputs, setup, series, i, channel_counts, group_totals,
                   group_avg, output>>

\* lines 56-59
Average ==
    /\ pc = "average"
    /\ group_totals' = get_totals(group_counts)
    /\ group_avg' = get_avg(group_counts, get_totals(group_counts), energy_bins)
    /\ pc' = "store"
    /\ UNCHANGED <<ext_vars, r_vars, cum_vars, inputs, setup, series, i, channel_counts, group_counts, output>>

\* lines 61-63, and the loop's increment
Store ==
    /\ pc = "store"
    /\ time_totals' = [g \in DOMAIN time_totals |->
                          IF g \in DOMAIN group_totals
                          THEN [time_totals[g] EXCEPT ![i + 1] = group_totals[g]]
                          ELSE time_totals[g]]
    /\ time_avg' = [g \in DOMAIN time_avg |->
                       IF g \in DOMAIN group_totals
                       THEN [time_avg[g] EXCEPT ![i + 1] = group_avg[g]]
                       ELSE time_avg[g]]
    /\ i' = i + 1
    /\ pc' = "load"
    /\ UNCHANGED <<ext_vars, r_vars, cum_vars, inputs, setup, step, output>>

\* lines 65-67
Assemble ==
    /\ pc = "load" /\ i = n_time
    /\ timebin_table' = create_timebin_table(time, time_totals, time_avg)
    /\ pc' = "save"
    /\ UNCHANGED <<ext_vars, r_vars, cum_vars, inputs, setup, series, i, step, saved>>

\* lines 69-72
Save ==
    /\ pc = "save"
    /\ saved' = timebin_table
    /\ pc' = "done"
    /\ UNCHANGED <<ext_vars, r_vars, cum_vars, inputs, setup, series, i, step, timebin_table>>

Next == Setup \/ Load \/ Aggregate \/ Average \/ Store \/ Assemble \/ Save

Spec == Init /\ [][Next]_vars

(***************************************************************************)
(* Properties of one time step (Spec)                                      *)
(***************************************************************************)
\* the step's group counts are those of the step's channel counts
Aggregated == pc \in {"average", "store"}
\* the step's totals and averages are those of the step's group counts
Averaged == pc = "store"

\* element-wise sum of the count vectors of a set of channels
RECURSIVE SumOfChannels(_, _, _)
SumOfChannels(counts, S, n) ==
    IF S = {} THEN np_zeros(n)
    ELSE LET c == CHOOSE ch \in S : TRUE
         IN VecAdd(counts[c], SumOfChannels(counts, S \ {c}, n))

\* element-wise sum of the count vectors of a list of member channels
RECURSIVE SumOfMembers(_, _, _)
SumOfMembers(counts, members, n) ==
    IF members = <<>> THEN np_zeros(n)
    ELSE VecAdd(counts[members[1]], SumOfMembers(counts, Tail(members), n))

\* some channel id is listed in two categories
HasDuplicateChannel(groups) ==
    \E j, k \in 1..Len(groups) :
        /\ j # k
        /\ \E p \in 1..Len(groups[j].subs), q \in 1..Len(groups[k].subs) :
              groups[j].subs[p] = groups[k].subs[q]

\* C1: for every grouping, group_counts['total'] is the element-wise sum of
\* all channel count vectors of the time step.
C1_TotalIsSumOfAllChannels ==
    Aggregated =>
        group_counts["total"] = SumOfChannels(channel_counts, DOMAIN channel_counts, n_bins)

\* C2: for every category g of the grouping, group_counts[g] is the
\* element-wise sum of the count vectors of the member channels of g.
C2_GroupIsSumOfMembers ==
    Aggregated =>
        \A k \in 1..Len(channel_groups) :
            group_counts[channel_groups[k].group]
                = SumOfMembers(channel_counts, channel_groups[k].subs, n_bins)

\* C3: a grouping that lists a channel id in two categories is rejected
\* (ConfigError) when the channel list is built: analyze_output never gets
\* past its start to load or aggregate a time step.
C3_DuplicateChannelRejected ==
    HasDuplicateChannel(channel_groups) => pc \in {"start", "ConfigError"}

\* C4: for every category and for 'total', at every time step: when the sum
\* of the counts over the energy bins is 0 the mean energy is exactly 0 (no
\* error, no nan), in the step's result, in the series and in the table.
C4_ZeroCountsGiveZeroAverage ==
    /\ Averaged =>
          \A g \in DOMAIN group_counts :
              np_sum(group_counts[g]) = 0 => group_avg[g] = Zero
    /\ pc # "start" =>
          \A g \in DOMAIN time_totals : \A k \in 1..n_time :
              time_totals[g][k] = 0 => time_avg[g][k] = Zero
    /\ pc = "done" =>
          \A g \in DOMAIN time_totals : \A k \in 1..n_time :
              saved[y_column("counts", g)][k] = Zero
                  => saved[y_column("energy", g)][k] = Zero

\* a step in which one category has no counts and another has some
C4_Witness ==
    /\ Averaged
    /\ \E g \in DOMAIN group_counts :
          np_sum(group_counts[g]) = 0 /\ group_avg[g] = Zero
    /\ \E g \in DOMAIN group_counts : np_sum(group_counts[g]) # 0

(***************************************************************************)
(* snow_tools.py: a session that loads a batch and integrates it           *)
(***************************************************************************)
\* the grouping and the energy bins the saved tables were made with, and the
\* channels asked of get_cumulative
CumGroups == << [group |-> "A", subs |-> <<"a">>], [group |-> "B", subs |-> <<"b">>] >>
CumEnergyFile == << <<1, 100>>, <<1, 50>> >>
CumChannels == <<"A", "B">>

\* the channel counts of one time step of a model
StepMenu ==
    { [a |-> <<0, 0>>, b |-> <<0, 0>>],
      [a |-> <<2, 1>>, b |-> <<0, 0>>],
      [a |-> <<0, 1>>, b |-> <<2, 1>>] }

\* the tables analyze_output saves for models of n time steps
SavedTables(n) ==
    {analyze_table(CumGroups, files, CumEnergyFile, TimeGrid(n)) :
        files \in [1..n -> StepMenu]}

InitCum ==
    /\ AnalysisOff
    /\ cpc = "tables"
    /\ data_dir \in [Range(MassList) -> UNION {SavedTables(n) : n \in 1..MaxRows}]
    /\ timebin_tables = <<>>
    /\ max_n_bins = 0 /\ b = 0 /\ cumulative = <<>> /\ x = <<>>
    /\ RoundedOff
    /\ ExtOff

\* load_all_timebin_tables, lines 35-67
LoadTables ==
    /\ cpc = "tables"
    /\ timebin_tables' = load_all_timebin_tables(MassList, data_dir)
    /\ cpc' = "call"
    /\ UNCHANGED <<ext_vars, r_vars, analysis_vars, data_dir, max_n_bins, b, cumulative, x>>

\* get_cumulative, lines 156-157: the call and the empty dict
CallGetCumulative ==
    /\ cpc = "call"
    /\ \E n \in 1..(MaxRows + 1) : max_n_bins' = n
    /\ b' = 1
    /\ cumulative' = <<>>
    /\ cpc' = "loop"
    /\ UNCHANGED <<ext_vars, r_vars, analysis_vars, data_dir, timebin_tables, x>>

\* get_cumulative, lines 159-161: one pass of the loop over bins
IntegrateBin ==
    /\ cpc = "loop" /\ b <= max_n_bins
    /\ cumulative' = Append(cumulative, time_integrate(timebin_tables, b, CumChannels))
    /\ b' = b + 1
    /\ UNCHANGED <<ext_vars, r_vars, analysis_vars, cpc, data_dir, timebin_tables, max_n_bins, x>>

\* get_cumulative, lines 164-167: the Datasets are concatenated and labelled
\* with the times after the first; the labelling raises unless there are as
\* many labels as bins
ConcatAndLabel ==
    /\ cpc = "loop" /\ b > max_n_bins
    /\ IF coords_fit(time_labels(timebin_tables), max_n_bins)
       THEN /\ x' = [time |-> time_labels(timebin_tables),
                     data |-> xr_concat_time(cumulative, max_n_bins)]
            /\ cpc' = "returned"
       ELSE /\ x' = <<>>
            /\ cpc' = "ValueError"
    /\ UNCHANGED <<ext_vars, r_vars, analysis_vars, data_dir, timebin_tables, max_n_bins, b, cumulative>>

NextCum == LoadTables \/ CallGetCumulative \/ IntegrateBin \/ ConcatAndLabel

SpecCum == InitCum /\ [][NextCum]_vars

(***************************************************************************)
(* Properties of the cumulative integration (SpecCum)                      *)
(***************************************************************************)
\* rows of the time series of model m, and of the Dataset of the batch
RowsOf(m) == Len(data_dir[m][<<"time">>])
Rows == Len(timebin_tables.time)
\* get_cumulative has ended, by returning or by raising
Ended == cpc \in {"returned", "ValueError"}
Categories == Range(<<"total">> \o CumChannels)
Masses == Range(MassList)
CountsOf(c) == y_column("counts", c)
EnergyOf(c) == y_column("energy", c)

\* sum of the counts of category c of model m over its first n rows
RECURSIVE PrefixCounts(_, _, _)
PrefixCounts(m, c, n) ==
    IF n = 0 THEN Zero
    ELSE FAdd(PrefixCounts(m, c, n - 1), timebin_tables.data[CountsOf(c)][m][n])

\* C6: for every model, category and n in 1..max_bins: when the first n rows
\* hold no counts of the category, the cumulative mean energy of n is
\* exactly 0.
C6_ZeroCountCumulativeMeanIsZero ==
    \A n \in 1..Len(cumulative) : \A m \in Masses : \A c \in Categories :
        (n <= RowsOf(m) /\ PrefixCounts(m, c, n) = Zero)
            => cumulative[n][EnergyOf(c)][m] = Zero

\* C7: get_cumulative asked for more bins than the time series of a model
\* has rows ends by raising; it returns no result.
C7_BeyondRowsRaises ==
    \A m \in Masses :
        (cpc \in {"loop", "returned", "ValueError"} /\ max_n_bins > RowsOf(m))
            => /\ cpc # "returned"
               /\ x = <<>>

\* C8: get_cumulative asked for as many bins as the time series has rows
\* returns, and the cumulative count of the last bin is the sum of the
\* category's counts over the whole series.
C8_FullRangeIntegration ==
    \A m \in Masses :
        (Ended /\ max_n_bins = RowsOf(m))
            => /\ cpc = "returned"
               /\ \A c \in Categories :
                     x.data[CountsOf(c)][m][max_n_bins] = PrefixCounts(m, c, RowsOf(m))

\* C9: the cumulative count of every model and category does not decrease
\* from n - 1 bins to n bins, in the dict as it is filled and in the Dataset
\* returned.
C9_CumulativeCountsMonotone ==
    /\ cpc \in {"loop", "returned", "ValueError"} =>
          \A n \in 2..Len(cumulative) : \A m \in Masses : \A c \in Categories :
              FLeq(cumulative[n - 1][CountsOf(c)][m], cumulative[n][CountsOf(c)][m])
    /\ cpc = "returned" =>
          \A n \in 2..max_n_bins : \A m \in Masses : \A c \in Categories :
              FLeq(x.data[CountsOf(c)][m][n - 1], x.data[CountsOf(c)][m][n])

\* a returned Dataset in which a count grows from one bin to the next
C9_Witness ==
    /\ cpc = "returned" /\ max_n_bins >= 2
    /\ \E m \in Masses :
          /\ x.data[CountsOf("A")][m][1] = FromInt(3)
          /\ x.data[CountsOf("A")][m][2] = FromInt(4)
    /\ \E m \in Masses : \E c \in Categories :
          /\ x.data[CountsOf(c)][m][1] # Zero
          /\ x.data[CountsOf(c)][m][1] = x.data[CountsOf(c)][m][2]

FloatMenu == {<<m, e>> : m \in Pow2(MantBits - 1)..(Pow2(MantBits) - 1), e \in {-1, 0}}

\* number of energy bins of the step
RoundedBins == 2

InitRounded ==
    /\ AnalysisOff
    /\ CumOff
    /\ rpc = "totals"
    /\ r_counts \in [1..RoundedBins -> FloatMenu \cup {B_Zero}]
    /\ r_energy_bins \in {e \in [1..RoundedBins -> FloatMenu] :
                             \A k \in 1..(RoundedBins - 1) :
                                 B_leq(e[k], e[k + 1]) /\ e[k] # e[k + 1]}
    /\ r_total = B_Zero /\ r_avg = B_Zero
    /\ ExtOff

\* get_totals, line 169
RoundedTotals ==
    /\ rpc = "totals"
    /\ r_total' = get_totals_rounded(r_counts)
    /\ rpc' = "avg"
    /\ UNCHANGED <<ext_vars, analysis_vars, cum_vars, r_counts, r_energy_bins, r_avg>>

\* get_avg, lines 180-185
RoundedAvg ==
    /\ rpc = "avg"
    /\ r_avg' = get_avg_rounded(r_counts, r_total, r_energy_bins)
    /\ rpc' = "done"
    /\ UNCHANGED <<ext_vars, analysis_vars, cum_vars, r_counts, r_energy_bins, r_total>>

NextRounded == RoundedTotals \/ RoundedAvg

SpecRounded == InitRounded /\ [][NextRounded]_vars

(***************************************************************************)
(* Properties of the mean energy                                           *)
(***************************************************************************)
\* C5: for counts >= 0 of nonzero sum, the mean energy get_avg returns lies
\* between the least and the greatest energy bin, inclusive.
C5_MeanWithinEnergyBins ==
    (rpc = "done" /\ r_total # B_Zero)
        => /\ \E k \in 1..RoundedBins : B_leq(r_energy_bins[k], r_avg)
           /\ \E k \in 1..RoundedBins : B_leq(r_avg, r_energy_bins[k])

\* the same bound in exact arithmetic (Spec): there it holds
MeanWithinEnergyBinsExact ==
    Averaged =>
        \A g \in DOMAIN group_counts :
            group_totals[g] # 0 =>
                /\ \E k \in 1..n_bins : FLeq(energy_bins[k], group_avg[g])
                /\ \E k \in 1..n_bins : FLeq(group_avg[g], energy_bins[k])

(***************************************************************************)
(* snow_tools.py: a call of get_channel_fractions                          *)
(***************************************************************************)
\* the model sets of the call
ModelSets == {"s1", "s2"}

InitFrac ==
    /\ AnalysisOff
    /\ CumOff
    /\ RoundedOff
    /\ fpc = "call"
    /\ tables \in [ModelSets -> UNION {SavedTables(n) : n \in 1..MaxTime}]
    /\ frac_table = <<>>
    /\ RoundedFracOff
    /\ StagesOff
    /\ BuildsOff

\* lines 180-192
GetChannelFractions ==
    /\ fpc = "call"
    /\ frac_table' = get_channel_fractions(tables, CumChannels)
    /\ fpc' = "returned"
    /\ UNCHANGED <<not_frac, tables>>

NextFrac == GetChannelFractions

SpecFrac == InitFrac /\ [][NextFrac]_vars

(***************************************************************************)
(* Properties of the fractions (SpecFrac)                                  *)
(***************************************************************************)
\* the time steps of a table whose total count is not zero
NonzeroSteps(table) ==
    {k \in 1..Len(table[<<"time">>]) : table[CountsOf("total")][k] # Zero}

\* sum of count/total of category c over a set of time steps
RECURSIVE SumOfRatios(_, _, _)
SumOfRatios(table, c, S) ==
    IF S = {} THEN Zero
    ELSE LET k == CHOOSE j \in S : TRUE
         IN FAdd(FDiv(table[CountsOf(c)][k], table[CountsOf("total")][k]),
                 SumOfRatios(table, c, S \ {k}))

\* mean of count/total of category c over the steps of nonzero total
MeanOverNonzeroSteps(table, c) ==
    FDiv(SumOfRatios(table, c, NonzeroSteps(table)),
         FromInt(Cardinality(NonzeroSteps(table))))

\* C11: for every model set and category the fraction is the average of
\* count/total over the time steps of nonzero total only, and exactly 0 when
\* every step has zero total.
C11_FractionOverNonzeroSteps ==
    fpc = "returned" =>
        \A s \in ModelSets : \A c \in Range(CumChannels) :
            frac_table[s][c] =
                IF NonzeroSteps(tables[s]) = {} THEN Zero
                ELSE MeanOverNonzeroSteps(tables[s], c)

\* the part of C11 on tables with a step of nonzero total: there it holds,
\* the steps of zero total are left out
FractionLeavesOutZeroSteps ==
    fpc = "returned" =>
        \A s \in ModelSets : \A c \in Range(CumChannels) :
            NonzeroSteps(tables[s]) # {}
                => frac_table[s][c] = MeanOverNonzeroSteps(tables[s], c)

\* a table with a step of zero total and a step of nonzero total
FractionLeavesOutZeroSteps_Witness ==
    /\ fpc = "returned"
    /\ \E s \in ModelSets :
          /\ NonzeroSteps(tables[s]) = {2}
          /\ frac_table[s]["A"] = <<1, 4>>

\* every step of nonzero total: in exact arithmetic the fractions of the
\* categories of a partition sum to 1
FractionsSumToOneExact ==
    fpc = "returned" =>
        \A s \in ModelSets :
            NonzeroSteps(tables[s]) = 1..Len(tables[s][<<"time">>])
                => FAdd(frac_table[s]["A"], frac_table[s]["B"]) = FromInt(1)

(***************************************************************************)
(* get_group_counts, get_totals and get_channel_fractions of one time      *)
(* step with one energy bin, in rounded arithmetic                         *)
(***************************************************************************)
\* the categories, each of one channel, in the order of the grouping
RoundedCategories == <<"A", "B", "C">>

\* the row of the time-binned table: the count of every category, and under
\* 'total' the counts added one category after the other (analysis.py,
\* line 158)
rounded_table_row(counts) ==
    [col \in {y_column("counts", c) : c \in Range(RoundedCategories) \cup {"total"}} |->
        IF col[2] = "total"
        THEN get_totals_rounded([k \in 1..Len(RoundedCategories) |->
                                    counts[RoundedCategories[k]]])
        ELSE get_totals_rounded(<<counts[col[2]]>>)]

\* get_channel_fractions of a table of that one row: the mean of one ratio
\* is the ratio
get_channel_fractions_rounded(row, categories) ==
    [c \in Range(categories) |->
        B_div(row[y_column("counts", c)], row[y_column("counts", "total")])]

InitRoundedFrac ==
    /\ AnalysisOff
    /\ CumOff
    /\ RoundedOff
    /\ FracOff
    /\ qpc = "table"
    /\ q_counts \in {f \in [Range(RoundedCategories) -> FloatMenu \cup {B_Zero}] :
                        \E c \in Range(RoundedCategories) : f[c] # B_Zero}
    /\ q_row = <<>>
    /\ q_fracs = <<>>
    /\ StagesOff
    /\ BuildsOff

\* analysis.py, lines 52-63: the step's totals, as the row of the table
RoundedRow ==
    /\ qpc = "table"
    /\ q_row' = rounded_table_row(q_counts)
    /\ qpc' = "fractions"
    /\ UNCHANGED <<not_q, q_counts, q_fracs>>

\* snow_tools.py, lines 184-189
RoundedFractions ==
    /\ qpc = "fractions"
    /\ q_fracs' = get_channel_fractions_rounded(q_row, RoundedCategories)
    /\ qpc' = "returned"
    /\ UNCHANGED <<not_q, q_counts, q_row>>

NextRoundedFrac == RoundedRow \/ RoundedFractions

SpecRoundedFrac == InitRoundedFrac /\ [][NextRoundedFrac]_vars

\* the value m * 2^e of a float, as an exact fraction
B_value(u) ==
    IF u[2] >= 0 THEN FromInt(u[1] * Pow2(u[2]))
    ELSE Frac(u[1], Pow2(0 - u[2]))

\* C12: the categories are a complete, non-overlapping partition of the
\* channels and the step's total count is not zero: the fractions of all
\* the categories sum to at most 1.
C12_FractionsSumAtMostOne ==
    qpc = "returned" =>
        FLeq(np_fsum([k \in 1..Len(RoundedCategories) |->
                         B_value(q_fracs[RoundedCategories[k]])]),
             FromInt(1))

(***************************************************************************)
(* analysis.py: analyze_output on input files nothing has validated        *)
(***************************************************************************)
\* count columns of 2, 1 and 3 energy bins
ShapeVectors == { <<2, 1>>, <<3>>, <<1, 1, 1>> }

\* time columns of key files: increasing, decreasing, repeating
KeyFiles == { <<0>>, <<0, 5>>, <<5, 0>>, <<0, 0>> }

\* the files of one time step: of both channels, or of channel a alone
StepFiles == [{"a", "b"} -> ShapeVectors] \cup [{"a"} -> ShapeVectors]

\* the energy bins are read from the file of the first channel at the first
\* time step (lines 31-36): that file exists and has a row per energy bin
InitUnchecked ==
    /\ pc = "start"
    /\ channel_groups = CumGroups
    /\ key_file \in KeyFiles
    /\ energy_file = CumEnergyFile
    /\ out_files \in {f \in [1..Len(key_file) -> StepFiles] :
                         Len(f[1]["a"]) = Len(energy_file)}
    /\ channels = <<>> /\ time = <<>> /\ n_time = 0
    /\ energy_bins = <<>> /\ n_bins = 0
    /\ time_totals = <<>> /\ time_avg = <<>> /\ i = 0
    /\ channel_counts = <<>> /\ group_counts = <<>>
    /\ group_totals = <<>> /\ group_avg = <<>>
    /\ timebin_table = <<>> /\ saved = <<>>
    /\ CumOff
    /\ RoundedOff
    /\ ExtOff

SpecUnchecked == InitUnchecked /\ [][Next]_vars

(***************************************************************************)
(* Properties of the build on unvalidated input (SpecUnchecked)            *)
(***************************************************************************)
\* C13: the count vectors of a time step that has been aggregated all have
\* length n_bins: a step with a vector of any other length, length 1
\* included, ends in an error and is never combined.
C13_MismatchedLengthsNotCombined ==
    Aggregated =>
        \A chan \in DOMAIN channel_counts : Len(channel_counts[chan]) = n_bins

\* the part of C13 that the code keeps: a vector of a length other than
\* n_bins and 1 is never combined
LongerVectorsNotCombined ==
    Aggregated =>
        \A chan \in DOMAIN channel_counts : Len(channel_counts[chan]) \in {n_bins, 1}

StrictlyIncreasing(grid) ==
    \A k \in 1..(Len(grid) - 1) : grid[k] < grid[k + 1]

\* C14: for a time grid that is not strictly increasing no table is
\* produced: none is assembled and none is saved.
C14_UnorderedGridGivesNoTable ==
    ~StrictlyIncreasing(key_file) => (timebin_table = <<>> /\ saved = <<>>)

\* the build has ended in an exception
Failed == pc \in {"OSError", "ValueError"}

\* C15: when loading or aggregating a time step has failed, no table has
\* been assembled or saved, and the rows filled for earlier time steps are
\* in no table.
C15_FailureGivesNoTable ==
    Failed => (timebin_table = <<>> /\ saved = <<>>)

\* the second time step fails after the first has filled its row
C15_Witness ==
    /\ Failed
    /\ i = 1
    /\ time_totals["total"][1] > 0
    /\ saved = <<>>

(***************************************************************************)
(* Properties of the assembled table (Spec)                                *)
(***************************************************************************)
\* the group counts of time index k, from the files of that index
CountsAtIndex(k) ==
    get_group_counts(load_channel_counts(get_all_channels(channel_groups), k, out_files),
                     channel_groups, Len(energy_file))

\* C16: the table has a row per value of the time grid, and row k holds the
\* k-th time value with, for every category and 'total', the total count and
\* the mean energy of the channel vectors loaded for time index k.
C16_RowsFollowTimeGrid ==
    pc \in {"save", "done"} =>
        /\ \A col \in DOMAIN timebin_table : Len(timebin_table[col]) = Len(key_file)
        /\ \A k \in 1..Len(key_file) :
              /\ timebin_table[<<"time">>][k] = key_file[k]
              /\ \A g \in {"total"} \cup GroupNames(channel_groups) :
                    /\ timebin_table[y_column("counts", g)][k]
                          = FromInt(get_totals(CountsAtIndex(k))[g])
                    /\ timebin_table[y_column("energy", g)][k]
                          = get_avg(CountsAtIndex(k), get_totals(CountsAtIndex(k)),
                                    load_energy_bins(energy_file))[g]
        /\ pc = "done" => saved = timebin_table

\* a saved table of two rows that differ
C16_Witness ==
    /\ pc = "done"
    /\ Len(key_file) = 2
    /\ saved[y_column("counts", "total")][1] # saved[y_column("counts", "total")][2]
    /\ saved[<<"time">>] = <<0, 5>>

(***************************************************************************)
(* Properties of a batch of models of differing lengths (SpecCum)          *)
(***************************************************************************)
\* C17: in the batch the series of every model keeps its own number of rows
\* (none is padded or cut to a common length), and get_cumulative holds no
\* entry of a model for a number of bins beyond that model's rows.
C17_OwnRowsOnly ==
    cpc \in {"call", "loop", "returned", "ValueError"} =>
        \A m \in Masses :
            /\ \A col \in DOMAIN timebin_tables.data :
                  Len(timebin_tables.data[col][m]) = RowsOf(m)
            /\ \A n \in 1..Len(cumulative) :
                  n > RowsOf(m) =>
                      \A col \in DOMAIN cumulative[n] : m \notin DOMAIN cumulative[n][col]

\* the part of C17 that the code keeps: a cumulative count of n bins is the
\* sum of the model's own rows among the first n, the rows it lacks adding
\* nothing
CumulativeFromOwnRows ==
    \A n \in 1..Len(cumulative) : \A m \in Masses : \A c \in Categories :
        cumulative[n][CountsOf(c)][m]
            = PrefixCounts(m, c, IF n < RowsOf(m) THEN n ELSE RowsOf(m))

(***************************************************************************)
(* analyze_output of one model, and a snow_tools session on its table      *)
(***************************************************************************)
\* the model of the session
StageMass == <<"m1">>

InitStages ==
    /\ pc = "start"
    /\ channel_groups = CumGroups
    /\ energy_file = CumEnergyFile
    /\ \E n \in 1..MaxTime :
          /\ key_file = TimeGrid(n)
          /\ out_files \in [1..n -> StepMenu]
    /\ channels = <<>> /\ time = <<>> /\ n_time = 0
    /\ energy_bins = <<>> /\ n_bins = 0
    /\ time_totals = <<>> /\ time_avg = <<>> /\ i = 0
    /\ channel_counts = <<>> /\ group_counts = <<>>
    /\ group_totals = <<>> /\ group_avg = <<>>
    /\ timebin_table = <<>> /\ saved = <<>>
    /\ CumOff
    /\ RoundedOff
    /\ FracOff
    /\ RoundedFracOff
    /\ dpc = "idle"
    /\ d_table = <<>> /\ d_integrated = <<>> /\ d_fractions = <<>>
    /\ BuildsOff

\* load_timebin_table, lines 70-91, whatever analyze_output has got to
\* by then, taking the file analyze_output is writing instead of the file
\* it has written
ReadTable_while_building ==
    /\ dpc = "idle"
    /\ IF pc \in {"start", "off"}
       THEN /\ dpc' = "FileNotFoundError"
            /\ d_table' = d_table
       ELSE /\ d_table' = create_timebin_table(time, time_totals, time_avg)
            /\ dpc' = "loaded"
    /\ UNCHANGED <<not_d, d_integrated, d_fractions>>

\* load_timebin_table, lines 70-91: pd.read_csv of the model's file, which
\* raises when there is no file
ReadTable ==
    /\ dpc = "idle"
    /\ IF saved = <<>>
       THEN /\ dpc' = "FileNotFoundError"
            /\ d_table' = d_table
       ELSE /\ d_table' = saved
            /\ dpc' = "loaded"
    /\ UNCHANGED <<not_d, d_integrated, d_fractions>>

\* time_integrate of the loaded table, lines 106-138
Integrate ==
    /\ dpc = "loaded" /\ d_integrated = <<>>
    /\ \E n \in 1..Len(d_table[<<"time">>]) :
          d_integrated' = time_integrate(
                              load_all_timebin_tables(StageMass,
                                  [m \in Range(StageMass) |-> d_table]),
                              n, CumChannels)
    /\ UNCHANGED <<not_d, dpc, d_table, d_fractions>>

\* get_channel_fractions of the loaded table, lines 170-192
Fraction ==
    /\ dpc = "loaded" /\ d_fractions = <<>>
    /\ d_fractions' = get_channel_fractions([m \in Range(StageMass) |-> d_table],
                                            CumChannels)
    /\ UNCHANGED <<not_d, dpc, d_table, d_integrated>>

NextStages == Next \/ ReadTable \/ Integrate \/ Fraction

SpecStages == InitStages /\ [][NextStages]_vars

(***************************************************************************)
(* Properties of the order of the stages (SpecStages)                      *)
(***************************************************************************)
\* the last stage the build has been through: 1 Load, 2 Aggregate,
\* 3 Average (with the step's record stored), 4 Assemble
StageRank ==
    CASE pc = "aggregate" -> 1
      [] pc = "average" -> 2
      [] pc = "store" -> 3
      [] pc = "load" -> (IF i = 0 THEN 0 ELSE 3)
      [] pc \in {"save", "done"} -> 4
      [] OTHER -> 0

\* Integrate or Fraction has run on the model
RanDownstream == d_integrated # <<>> \/ d_fractions # <<>>

StageSteps ==
    { <<"start", "load">>, <<"load", "aggregate">>, <<"aggregate", "average">>,
      <<"average", "store">>, <<"store", "load">>, <<"load", "save">>,
      <<"save", "done">> }

Builds == {"m1", "m2"}

\* the output files of a model: one or two time steps
BuildFiles ==
    UNION {[1..n -> {[a |-> <<2, 1>>, b |-> <<0, 0>>], [a |-> <<0, 1>>, b |-> <<2, 1>>]}] :
              n \in {1, 2}}

\* the calls share the grouping and the directory of their tables,
\* analysis/{detector}_{model_set}, which exists or not when they start
InitBuilds ==
    /\ AnalysisOff
    /\ CumOff
    /\ RoundedOff
    /\ FracOff
    /\ RoundedFracOff
    /\ StagesOff
    /\ bpc = [m \in Builds |-> "loop"]
    /\ b_files \in [Builds -> BuildFiles]
    /\ b_i = [m \in Builds |-> 0]
    /\ b_time_totals = [m \in Builds |->
                           [g \in {"total"} \cup GroupNames(CumGroups) |->
                               np_zeros(Len(b_files[m]))]]
    /\ b_time_avg = [m \in Builds |->
                        [g \in {"total"} \cup GroupNames(CumGroups) |->
                            [k \in 1..Len(b_files[m]) |-> Zero]]]
    /\ b_table = [m \in Builds |-> <<>>]
    /\ b_saved = [m \in Builds |-> <<>>]
    /\ analysis_dir \in BOOLEAN

\* analysis.py, lines 45-63: the work of one time step of model m
BuildStep(m) ==
    /\ bpc[m] = "loop" /\ b_i[m] < Len(b_files[m])
    /\ LET counts == get_group_counts(
                         load_channel_counts(get_all_channels(CumGroups),
                                             b_i[m] + 1, b_files[m]),
                         CumGroups, Len(CumEnergyFile))
           totals == get_totals(counts)
           avg == get_avg(counts, totals, load_energy_bins(CumEnergyFile))
       IN /\ b_time_totals' =
                [b_time_totals EXCEPT ![m] =
                    [g \in DOMAIN @ |-> [@[g] EXCEPT ![b_i[m] + 1] = totals[g]]]]
          /\ b_time_avg' =
                [b_time_avg EXCEPT ![m] =
                    [g \in DOMAIN @ |-> [@[g] EXCEPT ![b_i[m] + 1] = avg[g]]]]
    /\ b_i' = [b_i EXCEPT ![m] = @ + 1]
    /\ UNCHANGED <<not_b, bpc, b_files, b_table, b_saved, analysis_dir>>

\* lines 65-67
BuildAssemble(m) ==
    /\ bpc[m] = "loop" /\ b_i[m] = Len(b_files[m])
    /\ b_table' = [b_table EXCEPT ![m] =
                      create_timebin_table(TimeGrid(Len(b_files[m])),
                                           b_time_totals[m], b_time_avg[m])]
    /\ bpc' = [bpc EXCEPT ![m] = "isdir"]
    /\ UNCHANGED <<not_b, b_files, b_i, b_time_totals, b_time_avg, b_saved, analysis_dir>>

\* save_timebin_table, line 213: if not os.path.isdir(path)
BuildIsDir(m) ==
    /\ bpc[m] = "isdir"
    /\ bpc' = [bpc EXCEPT ![m] = IF analysis_dir THEN "write" ELSE "makedirs"]
    /\ UNCHANGED <<not_b, b_files, b_i, b_time_totals, b_time_avg, b_table, b_saved,
                   analysis_dir>>

\* line 214: os.makedirs(path) raises FileExistsError when the directory is
\* there by now
BuildMakeDirs(m) ==
    /\ bpc[m] = "makedirs"
    /\ bpc' = [bpc EXCEPT ![m] = IF analysis_dir THEN "FileExistsError" ELSE "write"]
    /\ analysis_dir' = TRUE
    /\ UNCHANGED <<not_b, b_files, b_i, b_time_totals, b_time_avg, b_table, b_saved>>

\* lines 216-221
BuildWrite(m) ==
    /\ bpc[m] = "write"
    /\ b_saved' = [b_saved EXCEPT ![m] = b_table[m]]
    /\ bpc' = [bpc EXCEPT ![m] = "done"]
    /\ UNCHANGED <<not_b, b_files, b_i, b_time_totals, b_time_avg, b_table, analysis_dir>>

NextBuilds ==
    \E m \in Builds :
        \/ BuildStep(m)
        \/ BuildAssemble(m)
        \/ BuildIsDir(m)
        \/ BuildMakeDirs(m)
        \/ BuildWrite(m)

SpecBuilds == InitBuilds /\ [][NextBuilds]_vars

(***************************************************************************)
(* Properties of the builds run side by side (SpecBuilds)                  *)
(***************************************************************************)
\* the table of model m built with no other build running
BuiltAlone(m) ==
    analyze_table(CumGroups, b_files[m], CumEnergyFile, TimeGrid(Len(b_files[m])))

\* C19: under every interleaving of the two builds, the table each build
\* ends with is the table of that model built alone.
C19_BuildsIndependent ==
    \A m \in Builds :
        bpc[m] \in {"done", "FileExistsError"} => b_saved[m] = BuiltAlone(m)

\* the part of C19 on the accumulators: the table a build assembles, and the
\* table it writes when it gets to write, is the table of the model built
\* alone
AssembledTablesIndependent ==
    \A m \in Builds :
        /\ bpc[m] \in {"isdir", "makedirs", "write", "done", "FileExistsError"}
              => b_table[m] = BuiltAlone(m)
        /\ bpc[m] = "done" => b_saved[m] = BuiltAlone(m)

====
